---- MODULE Spec2Model ----
(***************************************************************************)
(* Model of src/app.py: a Streamlit personal-finance tracker over three    *)
(* MongoDB collections (transacoes, categorias, tags).                     *)
(*                                                                         *)
(* Every user interaction re-runs the whole script, so each action is the  *)
(* handler of the interaction followed by the dashboard render of lines    *)
(* 142-255 against the resulting store and the current filter widgets.     *)
(*                                                                         *)
(* Conventions                                                             *)
(*   - money is in integer cents; round(x, 2) is rounding to whole cents   *)
(*   - a date is <<year, month, day>>                                      *)
(*   - a string is a sequence of one-character strings, ordered by         *)
(*     code point (Ord) as Python compares str                             *)
(*   - a field a document does not have (NaN in the DataFrame) is Ausente  *)
(*   - criado_em (datetime.now()) is not modelled: nothing reads it        *)
(***************************************************************************)
EXTENDS Integers, Sequences, FiniteSets, TLC

VARIABLES
    transacoes,   \* collection_transacoes, in insertion (natural) order
    categorias,   \* collection_categorias: sequence of names
    tags,         \* collection_tags: sequence of names
    intervalo,    \* the "Período" date_input: <<s, e>>, or <<s>> mid-selection
    filtro_tags,  \* the "Filtrar Tags" multiselect
    msg,          \* message shown by the form handler of the last run
    dash,         \* what the dashboard tab rendered in the last run
    envios,       \* history: envios[g] = the form inputs that created group g
    ultimo        \* history: what triggered the last run: "inicio", "salvar"
                  \* (form submitted with an amount), "salvar_sem_valor"
                  \* (form submitted without one) or "outro"

vars == <<transacoes, categorias, tags, intervalo, filtro_tags, msg, dash,
          envios, ultimo>>

----------------------------------------------------------------------------
(* Bounds *)

MaxParcelas == 3     \* largest "Quantas vezes?" entered
MaxEnvios   == 1     \* form submissions that reach the insert
MaxTags     == 1     \* tags picked in one multiselect
MaxValor    == 2     \* largest amount entered, in cents

----------------------------------------------------------------------------
(* Values *)

Ausente == "NaN"
None    == -1        \* st.number_input(value=None); min_value=0.0 excludes -1

Range(s) == {s[i] : i \in 1..Len(s)}

Min(a, b) == IF a <= b THEN a ELSE b

Abs(x) == IF x < 0 THEN -x ELSE x

(* Code points of the characters that occur. *)
Ord(c) ==
    CASE c = " " -> 32 [] c = "/" -> 47
      [] c = "0" -> 48 [] c = "1" -> 49 [] c = "2" -> 50 [] c = "3" -> 51
      [] c = "4" -> 52 [] c = "5" -> 53 [] c = "6" -> 54 [] c = "7" -> 55
      [] c = "8" -> 56 [] c = "9" -> 57
      [] c = "A" -> 65 [] c = "a" -> 97

(* Python's str < str: lexicographic by code point. *)
RECURSIVE StrLess(_, _)
StrLess(a, b) ==
    IF b = <<>> THEN FALSE
    ELSE IF a = <<>> THEN TRUE
    ELSE IF Ord(Head(a)) # Ord(Head(b)) THEN Ord(Head(a)) < Ord(Head(b))
    ELSE StrLess(Tail(a), Tail(b))

(* str.lower() *)
Lower(s) == [i \in 1..Len(s) |-> IF s[i] = "A" THEN "a" ELSE s[i]]

(* str.strip(): drop leading and trailing whitespace *)
RECURSIVE LStrip(_)
LStrip(s) == IF s # <<>> /\ Head(s) = " " THEN LStrip(Tail(s)) ELSE s

RECURSIVE RStrip(_)
RStrip(s) ==
    IF s # <<>> /\ s[Len(s)] = " " THEN RStrip(SubSeq(s, 1, Len(s) - 1)) ELSE s

Strip(s) == RStrip(LStrip(s))

(* sorted(lista) on strings, ascending *)
RECURSIVE InsertAsc(_, _)
InsertAsc(x, s) ==
    IF s = <<>> THEN <<x>>
    ELSE IF StrLess(x, Head(s)) THEN <<x>> \o s
    ELSE <<Head(s)>> \o InsertAsc(x, Tail(s))

RECURSIVE Sorted(_)
Sorted(s) == IF s = <<>> THEN <<>> ELSE InsertAsc(Head(s), Sorted(Tail(s)))

----------------------------------------------------------------------------
(* Calendar *)

IsLeap(y) == (y % 4 = 0 /\ y % 100 # 0) \/ y % 400 = 0

(* calendar.monthrange(year, month)[1] *)
DaysIn(y, m) ==
    IF m = 2 THEN (IF IsLeap(y) THEN 29 ELSE 28)
    ELSE IF m \in {4, 6, 9, 11} THEN 30 ELSE 31

(* date + relativedelta(months=n), n >= 0: relativedelta folds 12 months   *)
(* into a year, adds the rest to the month with one carry, and takes       *)
(* min(last day of the target month, day).                                 *)
AddMonths(d, n) ==
    LET years  == n \div 12
        months == n % 12
        m0     == d[2] + months
        year   == IF m0 > 12 THEN d[1] + years + 1 ELSE d[1] + years
        month  == IF m0 > 12 THEN m0 - 12 ELSE m0
    IN  <<year, month, Min(DaysIn(year, month), d[3])>>

(* date <= date *)
DateLE(a, b) ==
    \/ a[1] < b[1]
    \/ a[1] = b[1] /\ a[2] < b[2]
    \/ a[1] = b[1] /\ a[2] = b[2] /\ a[3] <= b[3]

Digitos == <<"0", "1", "2", "3", "4", "5", "6", "7", "8", "9">>

Digit(n) == Digitos[n + 1]

(* .dt.strftime('%d/%m/%Y') *)
Strftime(d) ==
    << Digit(d[3] \div 10), Digit(d[3] % 10), "/",
       Digit(d[2] \div 10), Digit(d[2] % 10), "/",
       Digit(d[1] \div 1000), Digit((d[1] \div 100) % 10),
       Digit((d[1] \div 10) % 10), Digit(d[1] % 10) >>

----------------------------------------------------------------------------
(* Registry Store *)

CategoriasPadrao ==
    << <<"Alimentação">>, <<"Transporte">>, <<"Lazer">>, <<"Contas Fixas">>,
       <<"Salário">>, <<"Renda Extra">> >>

get_categorias(cats) == IF cats = <<>> THEN CategoriasPadrao ELSE Sorted(cats)

get_tags(tgs) == Sorted(tgs)

(* collection.find_one({"nome": nome}) is not None *)
find_one(colecao, nome) == \E i \in 1..Len(colecao) : colecao[i] = nome

(* "Adicionar Categoria": insert when the typed name is non-empty and not  *)
(* yet stored.                                                             *)
NovaCategorias(cats, nova_cat) ==
    IF nova_cat # <<>> /\ ~find_one(cats, nova_cat)
    THEN Append(cats, nova_cat) ELSE cats

(* "Adicionar Tag": the typed name is tested for emptiness, then lowered   *)
(* and stripped, then looked up and inserted.                              *)
NovaTags(tgs, nova_tag) ==
    IF nova_tag # <<>>
    THEN LET tag_lower == Strip(Lower(nova_tag))
         IN  IF ~find_one(tgs, tag_lower) THEN Append(tgs, tag_lower) ELSE tgs
    ELSE tgs

----------------------------------------------------------------------------
(* Transaction Writer *)

(* Mutant of ValorAusente: the handler without its check. *)
ValorAusenteNunca(valor_total) == FALSE

(* if valor_total is None *)
ValorAusente(valor_total) == valor_total = None

(* Mutant of ValorParcela: truncation to whole cents instead of rounding. *)
ValorParcelaTrunc(valor_total, qtd_parcelas, meio_acima) ==
    valor_total \div qtd_parcelas

(* round(valor_total / qtd_parcelas, 2) in cents.  An exact half is        *)
(* decided by the binary value of the float quotient (round(0.005, 2) is   *)
(* 0.01, round(0.015, 2) is 0.01), so either neighbour can result:         *)
(* meio_acima says which.                                                  *)
ValorParcela(valor_total, qtd_parcelas, meio_acima) ==
    LET q == valor_total \div qtd_parcelas
        r == valor_total % qtd_parcelas
    IN  IF 2 * r < qtd_parcelas THEN q
        ELSE IF 2 * r > qtd_parcelas THEN q + 1
        ELSE IF meio_acima THEN q + 1 ELSE q

(* Mutant of DataFinal: each installment dated one month after the         *)
(* previous installment instead of i months after the entered date.        *)
RECURSIVE DataFinalEncadeada(_, _)
DataFinalEncadeada(data_mov, i) ==
    IF i = 0 THEN data_mov
    ELSE AddMonths(DataFinalEncadeada(data_mov, i - 1), 1)

(* data_final = data_mov + relativedelta(months=i) *)
DataFinal(data_mov, i) == AddMonths(data_mov, i)

(* desc_final: suffixed " (i+1/qtd)" only when there are several parcels *)
DescFinal(descricao, i, qtd_parcelas) ==
    [texto   |-> descricao,
     parcela |-> IF qtd_parcelas > 1 THEN <<i + 1, qtd_parcelas>> ELSE <<>>]

(* The document of loop index i (0-based, as in the code). *)
Documento(i, data_mov, valor, descricao, categoria, tipo_db, forma_pagamento, qtd_parcelas, id_grupo, tags_selecionadas) ==
    [data           |-> DataFinal(data_mov, i),
     descricao      |-> DescFinal(descricao, i, qtd_parcelas),
     categoria      |-> categoria,
     valor          |-> valor,
     tipo           |-> tipo_db,
     pagamento      |-> forma_pagamento,
     parcela_atual  |-> i + 1,
     total_parcelas |-> qtd_parcelas,
     group_id       |-> id_grupo,
     tags           |-> [campo |-> "lista", itens |-> tags_selecionadas]]

(* lista_insercoes after the for loop *)
ListaInsercoes(data_mov, valor, descricao, categoria, tipo_db, forma_pagamento, qtd_parcelas, id_grupo, tags_selecionadas) ==
    [j \in 1..qtd_parcelas |->
        Documento(j - 1, data_mov, valor, descricao, categoria, tipo_db,
                  forma_pagamento, qtd_parcelas, id_grupo, tags_selecionadas)]

(* collection.insert_many(docs), an ordered non-transactional bulk insert: *)
(* the server inserts the documents serially and stops at the first one it *)
(* rejects; the ones before it stay.  aceitos is the number that went in,  *)
(* aceitos = Len(docs) when nothing was rejected.                          *)
insert_many(colecao, docs, aceitos) == colecao \o SubSeq(docs, 1, aceitos)

----------------------------------------------------------------------------
(* Aggregator (the dashboard tab).  The DataFrame is the store plus its    *)
(* index: a sequence of positions into the store, which the filters        *)
(* shorten.                                                                *)

(* fillna('Despesa') / df['tipo'] = 'Despesa' for documents without tipo *)
TipoDe(t) == IF t.tipo = Ausente THEN "Despesa" ELSE t.tipo

(* df[(df['data'].dt.date >= s) & (df['data'].dt.date <= e)], applied only *)
(* when the widget holds a complete range                                  *)
FiltroPeriodo(idx, dados, periodo) ==
    IF Len(periodo) = 2
    THEN LET NoPeriodo(i) == /\ DateLE(periodo[1], dados[i].data)
                             /\ DateLE(dados[i].data, periodo[2])
         IN  SelectSeq(idx, NoPeriodo)
    ELSE idx

(* check_tags(row_tags) *)
check_tags(row_tags, filtro) ==
    IF row_tags.campo # "lista" THEN FALSE
    ELSE Range(row_tags.itens) \cap Range(filtro) # {}

(* df = df[df['tags'].apply(check_tags)] *)
FiltroTags(idx, dados, filtro) ==
    LET Casa(i) == check_tags(dados[i].tags, filtro)
    IN  SelectSeq(idx, Casa)

(* The DataFrame built from the documents has a 'tags' column only when    *)
(* some document has the field.                                            *)
TemColunaTags(dados) == \E i \in 1..Len(dados) : dados[i].tags.campo # "ausente"

RECURSIVE SomaValor(_, _, _)
SomaValor(idx, dados, tipo) ==
    IF idx = <<>> THEN 0
    ELSE (IF TipoDe(dados[Head(idx)]) = tipo THEN dados[Head(idx)].valor ELSE 0)
         + SomaValor(Tail(idx), dados, tipo)

(* formata_valor(row): sign by tipo, then the amount *)
formata_valor(t) ==
    [sinal |-> IF TipoDe(t) = "Receita" THEN "+" ELSE "-", valor |-> t.valor]

(* One row of df_show, with data already formatted by strftime. *)
LinhaExtrato(t) ==
    [data      |-> Strftime(t.data),
     tipo      |-> TipoDe(t),
     descricao |-> t.descricao,
     categoria |-> t.categoria,
     valor_fmt |-> formata_valor(t)]

(* sort_values(by='data', ascending=False) on df_show, whose 'data' column *)
(* holds the formatted strings.  Rows with equal keys keep their order,    *)
(* which no property here depends on.                                      *)
RECURSIVE InsertDesc(_, _)
InsertDesc(x, s) ==
    IF s = <<>> THEN <<x>>
    ELSE IF StrLess(Head(s).data, x.data) THEN <<x>> \o s
    ELSE <<Head(s)>> \o InsertDesc(x, Tail(s))

RECURSIVE SortDesc(_)
SortDesc(s) ==
    IF s = <<>> THEN <<>>
    ELSE InsertDesc(s[Len(s)], SortDesc(SubSeq(s, 1, Len(s) - 1)))

Extrato(idx, dados) == SortDesc([j \in 1..Len(idx) |-> LinhaExtrato(dados[idx[j]])])

SemDados == [estado |-> "sem_dados", indice |-> <<>>, kpis |-> <<>>,
             aviso  |-> FALSE, extrato |-> <<>>]

ErroDash == [estado |-> "erro", indice |-> <<>>, kpis |-> <<>>,
             aviso  |-> FALSE, extrato |-> <<>>]

(* The dashboard tab, lines 142-255.  mascara_vazia_perde_colunas is the   *)
(* pandas behaviour on df[mask] when df has no rows: the mask that         *)
(* Series.apply returns is then an empty object Series, which some pandas  *)
(* versions take for a list of column labels, leaving a frame without      *)
(* columns on which df['tipo'] raises KeyError.                            *)
Dashboard(dados, periodo, filtro, mascara_vazia_perde_colunas) ==
    IF dados = <<>> THEN SemDados
    ELSE
      LET todos == [j \in 1..Len(dados) |-> j]
          df1   == FiltroPeriodo(todos, dados, periodo)
      IN  IF filtro # <<>> /\ ~TemColunaTags(dados) THEN ErroDash
          ELSE IF filtro # <<>> /\ df1 = <<>> /\ mascara_vazia_perde_colunas
               THEN ErroDash
          ELSE
            LET df         == IF filtro # <<>> THEN FiltroTags(df1, dados, filtro)
                              ELSE df1
                total_rec  == SomaValor(df, dados, "Receita")
                total_desp == SomaValor(df, dados, "Despesa")
                saldo      == total_rec - total_desp
            IN  [estado  |-> "kpis",
                 indice  |-> df,
                 kpis    |-> <<total_rec, total_desp, saldo>>,
                 aviso   |-> (df = <<>>),
                 extrato |-> IF df # <<>> THEN Extrato(df, dados) ELSE <<>>]

----------------------------------------------------------------------------
(* Inputs *)

(* Dates entered in the form: a day 31 before a short February, a year end *)
(* before a leap February, and a mid-month day.                            *)
Datas == {<<2023, 1, 31>>, <<2023, 12, 31>>, <<2024, 1, 15>>}

(* Amounts entered, in cents; None is the untouched widget. *)
Valores == 0..MaxValor

Descricoes == {<<"a">>}

(* Names typed in the "Cadastros" tab. *)
TagsDigitadas == {<<>>, <<" ">>, <<"A">>, <<" ", "a">>}

CategoriasDigitadas == {<<>>, <<"A">>}

(* Selections a multiselect over opcoes can hold. *)
Selecoes(opcoes) ==
    {sel \in UNION {[1..n -> Range(opcoes)] : n \in 0..MaxTags} :
        \A i, j \in 1..Len(sel) : i # j => sel[i] # sel[j]}

Hoje == <<2024, 1, 15>>

(* (inicio_mes, fim_padrao) of lines 163-165 *)
IntervaloPadrao == <<<<Hoje[1], Hoje[2], 1>>, AddMonths(Hoje, 1)>>

Intervalos ==
    {IntervaloPadrao,
     <<<<2025, 1, 1>>, <<2025, 1, 31>>>>,
     <<<<2024, 1, 1>>>>}

(* Documents written before the form stored tipo, tags and the parcel      *)
(* fields ("dados antigos" of line 153), and one whose tags is not a list. *)
Antigo1 ==
    [data |-> <<2024, 1, 10>>, descricao |-> [texto |-> <<"a">>, parcela |-> <<>>],
     categoria |-> <<"Lazer">>, valor |-> 5, tipo |-> Ausente,
     pagamento |-> Ausente, parcela_atual |-> 0, total_parcelas |-> 0,
     group_id |-> 0, tags |-> [campo |-> "ausente", itens |-> <<>>]]

Antigo2 ==
    [data |-> <<2024, 2, 3>>, descricao |-> [texto |-> <<"a">>, parcela |-> <<>>],
     categoria |-> <<"Lazer">>, valor |-> 5, tipo |-> "Receita",
     pagamento |-> Ausente, parcela_atual |-> 0, total_parcelas |-> 0,
     group_id |-> 0, tags |-> [campo |-> "outro", itens |-> <<>>]]

Legado == {<<>>, <<Antigo1>>, <<Antigo2>>}

----------------------------------------------------------------------------
(* State machine *)

Init ==
    /\ transacoes \in Legado
    /\ categorias = <<>>
    /\ tags = <<>>
    /\ intervalo = IntervaloPadrao
    /\ filtro_tags = <<>>
    /\ msg = "nenhuma"
    /\ dash = Dashboard(transacoes, intervalo, filtro_tags, FALSE)
    /\ envios = <<>>
    /\ ultimo = "inicio"

(* The dashboard tab runs in every script run, after the form handler. *)
Render ==
    \E mascara_vazia_perde_colunas \in BOOLEAN :
        dash' = Dashboard(transacoes', intervalo', filtro_tags',
                          mascara_vazia_perde_colunas)

(* round() sees an exact half only when 2 * remainder = divisor. *)
Meios(valor_total, qtd_parcelas) ==
    IF 2 * (valor_total % qtd_parcelas) = qtd_parcelas THEN BOOLEAN ELSE {FALSE}

(* Submit of form_transacao, lines 95-137. *)
Salvar ==
    \E valor_total \in Valores \cup {None} :
    /\ ultimo' = IF valor_total = None THEN "salvar_sem_valor" ELSE "salvar"
    /\ IF ValorAusente(valor_total)
       THEN /\ msg' = "aviso_valor"
            /\ UNCHANGED <<transacoes, envios>>
       ELSE /\ Len(envios) < MaxEnvios
            /\ \E eh_despesa \in BOOLEAN, data_mov \in Datas,
                  descricao \in Descricoes,
                  tags_selecionadas \in Selecoes(get_tags(tags)) :
               \E forma_pagamento \in
                      (IF eh_despesa THEN {"Crédito", "Pix"} ELSE {"Pix"}) :
               \E qtd_parcelas \in
                      (IF eh_despesa /\ forma_pagamento = "Crédito"
                       THEN 1..MaxParcelas ELSE {1}) :
               \E meio_acima \in Meios(valor_total, qtd_parcelas),
                  aceitos \in 0..qtd_parcelas :
               LET categoria == get_categorias(categorias)[1]
                   tipo_db   == IF eh_despesa THEN "Despesa" ELSE "Receita"
                   id_grupo  == Len(envios) + 1
                   valor     == ValorParcela(valor_total, qtd_parcelas, meio_acima)
                   lista_insercoes ==
                       ListaInsercoes(data_mov, valor, descricao, categoria,
                                      tipo_db, forma_pagamento, qtd_parcelas,
                                      id_grupo, tags_selecionadas)
               IN  /\ transacoes' = insert_many(transacoes, lista_insercoes, aceitos)
                   /\ msg' = IF aceitos = qtd_parcelas THEN "sucesso" ELSE "erro"
                   /\ envios' = Append(envios,
                                   [data_mov |-> data_mov,
                                    valor_total |-> valor_total,
                                    qtd_parcelas |-> qtd_parcelas])
    /\ UNCHANGED <<categorias, tags, intervalo, filtro_tags>>
    /\ Render

(* The user changes the "Período" widget. *)
MudarPeriodo ==
    \E novo \in Intervalos :
        /\ intervalo' = novo
        /\ msg' = "nenhuma"
        /\ ultimo' = "outro"
        /\ UNCHANGED <<transacoes, categorias, tags, filtro_tags, envios>>
        /\ Render

(* The user changes the "Filtrar Tags" widget. *)
MudarFiltroTags ==
    \E novo \in Selecoes(get_tags(tags)) :
        /\ filtro_tags' = novo
        /\ msg' = "nenhuma"
        /\ ultimo' = "outro"
        /\ UNCHANGED <<transacoes, categorias, tags, intervalo, envios>>
        /\ Render

(* Button "Adicionar Categoria", lines 266-271. *)
AdicionarCategoria ==
    \E nova_cat \in CategoriasDigitadas :
        /\ categorias' = NovaCategorias(categorias, nova_cat)
        /\ msg' = "nenhuma"
        /\ ultimo' = "outro"
        /\ UNCHANGED <<transacoes, tags, intervalo, filtro_tags, envios>>
        /\ Render

(* Button "Adicionar Tag", lines 276-283. *)
AdicionarTag ==
    \E nova_tag \in TagsDigitadas :
        /\ tags' = NovaTags(tags, nova_tag)
        /\ msg' = "nenhuma"
        /\ ultimo' = "outro"
        /\ UNCHANGED <<transacoes, categorias, intervalo, filtro_tags, envios>>
        /\ Render

(* Submissions while no group has been written yet. *)
PrimeiroEnvio == envios = <<>> /\ Salvar

(* The whole application over a database that may hold old documents: one  *)
(* submission among any number of registry and filter interactions.        *)
Next ==
    \/ PrimeiroEnvio
    \/ MudarPeriodo
    \/ MudarFiltroTags
    \/ AdicionarCategoria
    \/ AdicionarTag

Spec == Init /\ [][Next]_vars

(* The Transaction Writer alone on a fresh database: up to MaxEnvios       *)
(* submissions, the registries and the filter widgets left as they start.  *)
InitEscrita == Init /\ transacoes = <<>>

NextEscrita == Salvar

SpecEscrita == InitEscrita /\ [][NextEscrita]_vars

----------------------------------------------------------------------------
(* Properties *)

(* Positions of the documents the Writer wrote for group g. *)
DocsDoGrupo(g) == {i \in 1..Len(transacoes) : transacoes[i].group_id = g}

(* group_id values present in the store (0 marks a document without one). *)
GruposPresentes == {transacoes[i].group_id : i \in 1..Len(transacoes)} \ {0}

RECURSIVE SomaDocs(_)
SomaDocs(S) ==
    IF S = {} THEN 0
    ELSE LET i == CHOOSE x \in S : TRUE
         IN  transacoes[i].valor + SomaDocs(S \ {i})

(* Months since year 0 of a date. *)
Meses(d) == d[1] * 12 + d[2] - 1

(* The date a row of the listing shows, read back from "dd/mm/yyyy". *)
DataDaLinha(linha) ==
    LET n(k) == Ord(linha.data[k]) - 48
    IN  <<n(7) * 1000 + n(8) * 100 + n(9) * 10 + n(10), n(4) * 10 + n(5),
          n(1) * 10 + n(2)>>

(* Documents inside the active period (all of them while the widget holds  *)
(* no complete range).                                                     *)
NoPeriodoAtivo ==
    {i \in 1..Len(transacoes) :
        Len(intervalo) = 2 =>
            /\ DateLE(intervalo[1], transacoes[i].data)
            /\ DateLE(transacoes[i].data, intervalo[2])}

(* Whether document i carries a tag of the active filter. *)
TemTagDoFiltro(i) ==
    /\ transacoes[i].tags.campo = "lista"
    /\ \E a \in 1..Len(transacoes[i].tags.itens), b \in 1..Len(filtro_tags) :
          transacoes[i].tags.itens[a] = filtro_tags[b]

(* The transaction set after the period and tag filters, as section 4.3    *)
(* defines it.                                                             *)
ConjuntoFiltrado ==
    {i \in NoPeriodoAtivo : filtro_tags # <<>> => TemTagDoFiltro(i)}

(* C1: every group_id in the store has exactly N documents, all with       *)
(* total_parcelas = N, whose parcela_atual values are exactly 1..N.        *)
C1_GruposCompletos ==
    \A g \in GruposPresentes :
        \E n \in 1..MaxParcelas :
            /\ \A i \in DocsDoGrupo(g) : transacoes[i].total_parcelas = n
            /\ Cardinality(DocsDoGrupo(g)) = n
            /\ {transacoes[i].parcela_atual : i \in DocsDoGrupo(g)} = 1..n

(* C2: a submission's documents are committed all or none; when the store  *)
(* rejected the write (the form shows the error) none of them is stored.   *)
C2_TudoOuNada ==
    /\ \A g \in 1..Len(envios) :
          Cardinality(DocsDoGrupo(g)) \in {0, envios[g].qtd_parcelas}
    /\ (ultimo = "salvar" /\ msg = "erro") => DocsDoGrupo(Len(envios)) = {}

(* C3: a submission without an amount changes no collection and shows the  *)
(* validation warning.                                                     *)
C3_SemValorNadaEscrito ==
    [][ultimo' = "salvar_sem_valor" =>
          /\ transacoes' = transacoes
          /\ categorias' = categorias
          /\ tags' = tags
          /\ msg' = "aviso_valor"]_vars

C3_Witness ==
    /\ ultimo = "salvar_sem_valor"
    /\ msg = "aviso_valor"
    /\ transacoes # <<>>

(* C4: every written document stores the cent value nearest to A / N, and  *)
(* the N amounts of a complete group sum to A within N cents.              *)
C4_ValorArredondado ==
    \A g \in GruposPresentes :
        LET A == envios[g].valor_total
            N == envios[g].qtd_parcelas
        IN  /\ \A i \in DocsDoGrupo(g) :
                  2 * Abs(transacoes[i].valor * N - A) <= N
            /\ Cardinality(DocsDoGrupo(g)) = N =>
                  Abs(SomaDocs(DocsDoGrupo(g)) - A) <= N

C4_Witness ==
    \E g \in GruposPresentes :
        /\ envios[g].qtd_parcelas = 3
        /\ envios[g].valor_total = 2
        /\ Cardinality(DocsDoGrupo(g)) = 3
        /\ SomaDocs(DocsDoGrupo(g)) = 3

(* C5: the document with parcela_atual = i + 1 is dated i calendar months  *)
(* after the entered date, on the entered day or, where the target month   *)
(* is too short for it, on that month's last day.                          *)
C5_DatasMensais ==
    \A g \in GruposPresentes : \A k \in DocsDoGrupo(g) :
        LET D == envios[g].data_mov
            d == transacoes[k].data
            i == transacoes[k].parcela_atual - 1
        IN  /\ Meses(d) = Meses(D) + i
            /\ d[3] <= D[3]
            /\ d[3] <= DaysIn(d[1], d[2])
            /\ d[3] = D[3] \/ d[3] = DaysIn(d[1], d[2])

C5_Witness ==
    \E g \in GruposPresentes : \E j, k \in DocsDoGrupo(g) :
        /\ envios[g].data_mov = <<2023, 1, 31>>
        /\ transacoes[j].parcela_atual = 2 /\ transacoes[j].data = <<2023, 2, 28>>
        /\ transacoes[k].parcela_atual = 3 /\ transacoes[k].data = <<2023, 3, 31>>

(* C6: whenever the filtered transaction set is empty the dashboard gives  *)
(* a "no data" signal and shows no totals.                                 *)
C6_SemDadosSemTotais ==
    ConjuntoFiltrado = {} =>
        /\ dash.estado = "sem_dados" \/ dash.aviso
        /\ dash.kpis = <<>>

(* C7: with a tag filter and documents in the period, the dashboard shows  *)
(* no error and aggregates exactly the documents in the period that carry  *)
(* a filter tag; without a tag filter it aggregates every document in the  *)
(* period.                                                                 *)
C7_FiltroDeTags ==
    NoPeriodoAtivo # {} =>
        /\ dash.estado = "kpis"
        /\ Range(dash.indice) = ConjuntoFiltrado

(* C8: the tags registry holds no empty name and no name twice. *)
C8_TagsNormalizadas ==
    /\ \A i \in 1..Len(tags) : tags[i] # <<>>
    /\ \A i, j \in 1..Len(tags) : i # j => tags[i] # tags[j]

(* C9: the detail listing is in descending date order: no row shows a      *)
(* later date than a row above it.                                         *)
C9_ExtratoDecrescente ==
    \A i, j \in 1..Len(dash.extrato) :
        i < j => DateLE(DataDaLinha(dash.extrato[j]), DataDaLinha(dash.extrato[i]))

(* C10: every document the Writer stored has a strictly positive amount. *)
C10_ValorPositivo ==
    \A g \in GruposPresentes : \A i \in DocsDoGrupo(g) : transacoes[i].valor > 0

====
